---- MODULE Spec2Model ----
(***************************************************************************)
(* Model of queue_downloads.py: one run of the script, from login, through *)
(* the chunked submission of the input file (queue_all_files/queue_files), *)
(* to the optional status polling loop (monitor).  The DataGateway server  *)
(* and the wall clock are the environment: every HTTP response and every   *)
(* clock reading is a nondeterministic choice.                             *)
(*                                                                         *)
(* The log `http` and the list `printed` are history variables: they       *)
(* record the requests the script issued and what it printed.              *)
(***************************************************************************)
EXTENDS Integers, Sequences, FiniteSets, TLC

(* ------------------------------ bounds -------------------------------- *)

\* The flush threshold of queue_all_files.  The script uses 10000; the model
\* scales it down so that files spanning several parts can be enumerated.
ChunkSize == 2

\* Longest input file, in lines.
MaxLines == 5

\* Most iterations of monitor's while loop that are explored.
MaxPolls == 2

\* Latest clock reading, in seconds after the start of the run.
MaxClock == 1

(* --------------------------- environment ------------------------------ *)

\* A line as f.readline() returns it: characters up to and including "\n".
RawLines == { <<"\n">>, <<"a", "\n">>, <<" ", "b", " ", "\n">> }

Whitespace == {" ", "\n"}

\* --download-name: absent (None), empty, or a name.
None == "<None>"
FileNames == {None, "", "dl"}

\* The download name of the whole-run specification: a supplied name.
PlainNames == {"dl"}

\* --monitor-interval: all values, and those that disable monitoring.
MonitorIntervals == {-1, 0, 1}
DisabledIntervals == {-1, 0}

\* The input files of the whole-run specification: every line the same.
PlainLines == { <<"a", "\n">> }

SessionIds == {"sid"}
DownloadIds == {1, 2}
Statuses == {"QUEUED", "PAUSED", "PREPARING", "RESTORING", "COMPLETE"}

\* Responses other than 200.
FailResponses ==
    { [status_code |-> 401, text |-> "unauthorized"],
      [status_code |-> 500, text |-> "server error"] }

NoResponse == [status_code |-> 0, text |-> ""]

\* All sequences over S of length exactly n / at most n.
SeqOfLen(S, n) == [1..n -> S]
SeqUpTo(S, n) == UNION { SeqOfLen(S, k) : k \in 0..n }

(* ------------------------------ state --------------------------------- *)

VARIABLES
    lines,             \* the input file, as the lines readline() yields
    file_name,         \* args.download_name
    monitor_interval,  \* args.monitor_interval
    now,               \* the wall clock, whole seconds
    pc,                \* position of the script
    session_id,        \* main: session_id
    main_download_ids, \* main: download_ids
    returned,          \* queue_all_files has returned
    i,                 \* queue_all_files: i
    files,             \* queue_all_files: files
    download_ids,      \* queue_all_files: download_ids
    base_file_name,    \* queue_all_files: base_file_name
    line,              \* queue_all_files: line
    pos,               \* queue_all_files: offset of f, in lines
    response,          \* monitor: response
    content,           \* monitor: content
    polls,             \* iterations of monitor's while loop
    error,             \* message of the RuntimeError that ended the run
    http,              \* history: the requests issued, with their responses
    printed            \* history: monitor's final message

vars == << lines, file_name, monitor_interval, now, pc, session_id,
           main_download_ids, returned, i, files, download_ids,
           base_file_name, line, pos, response, content, polls, error,
           http, printed >>

config == << lines, file_name, monitor_interval >>
qafVars == << i, files, download_ids, base_file_name, line, pos >>
monVars == << response, content, polls, printed >>

(* ----------------------------- helpers -------------------------------- *)

\* str.strip(): drop leading and trailing whitespace.
RECURSIVE LStrip(_)
LStrip(s) ==
    IF s # <<>> /\ Head(s) \in Whitespace THEN LStrip(Tail(s)) ELSE s

RECURSIVE RStrip(_)
RStrip(s) ==
    IF s # <<>> /\ s[Len(s)] \in Whitespace
    THEN RStrip(SubSeq(s, 1, Len(s) - 1))
    ELSE s

Strip(s) == RStrip(LStrip(s))

\* f.readline() at offset p: the next line, or the empty string at EOF.
ReadLine(p) == IF p <= Len(lines) THEN lines[p] ELSE <<>>

\* datetime.now().isoformat()[:19]
IsoFormat19(t) == "2024-01-01T00:00:0" \o ToString(t)

\* file_name or datetime.now().isoformat()[:19]
BaseFileName(name, t) ==
    IF name # None /\ name # "" THEN name ELSE IsoFormat19(t)

\* f"{base_file_name}_part_{i}"
PartNameNow(k) == BaseFileName(file_name, now) \o "_part_" \o ToString(k)
PartName(k) == base_file_name \o "_part_" \o ToString(k)

\* response.status_code != 200
FailedOnly4xx(r) == r.status_code \notin {200, 500}
FailedOnly5xx(r) == r.status_code >= 500
Failed(r) == r.status_code # 200

\* len(files) >= 10000
ShouldFlushGt(fs) == Len(fs) > ChunkSize
ShouldFlush(fs) == Len(fs) >= ChunkSize

\* if files:
AlwaysFlush(fs) == TRUE
FinalFlushNeeded(fs) == fs # <<>>

\* files = []
FilesKept(fs) == fs
FilesAfterFlush(fs) == <<>>

\* i += 1
SamePart(k) == k
NextPart(k) == k + 1

\* download_ids.append(download_id)
PrependId(ids, id) == <<id>> \o ids
AppendId(ids, id) == Append(ids, id)

\* args.monitor_interval > 0
MonitorEnabledGe(m) == m >= 0
MonitorEnabled(m) == m > 0

\* any([s in {"QUEUED", "PAUSED", "PREPARING", "RESTORING"} for s in content])
ActiveStatuses == {"QUEUED", "PAUSED", "PREPARING", "RESTORING"}
AllActive(c) == \A k \in 1..Len(c) : c[k] \in ActiveStatuses
AnyActive(c) == \E k \in 1..Len(c) : c[k] \in ActiveStatuses

\* The response whose status is tested after the keep-alive PUT: the code
\* tests `response`, which still holds the last status-query response.
KeepAliveOwn(prev, ka) == ka
KeepAliveChecked(prev, ka) == prev

(* -------------------------- server responses --------------------------- *)

LoginResponses ==
    { [status_code |-> 200, text |-> "ok", sessionId |-> s] : s \in SessionIds }
    \cup { [status_code |-> f.status_code, text |-> f.text, sessionId |-> ""]
           : f \in FailResponses }

QueueResponses ==
    { [status_code |-> 200, text |-> "ok", downloadId |-> d] : d \in DownloadIds }
    \cup { [status_code |-> f.status_code, text |-> f.text, downloadId |-> 0]
           : f \in FailResponses }

StatusResponses(ids) ==
    { [status_code |-> 200, text |-> "ok", content |-> c]
      : c \in SeqOfLen(Statuses, Len(ids)) }
    \cup { [status_code |-> f.status_code, text |-> f.text, content |-> <<>>]
           : f \in FailResponses }

KeepAliveResponses ==
    { [status_code |-> 200, text |-> "ok"] } \cup FailResponses

(* ------------------------------- Init --------------------------------- *)

\* The state when the script starts, for an input file over the lines L, a
\* download name in N and a monitor interval in M.
InitOver(L, N, M) ==
    /\ lines \in SeqUpTo(L, MaxLines)
    /\ file_name \in N
    /\ monitor_interval \in M
    /\ now = 0
    /\ pc = "login"
    /\ session_id = ""
    /\ main_download_ids = <<>>
    /\ returned = FALSE
    /\ i = 0
    /\ files = <<>>
    /\ download_ids = <<>>
    /\ base_file_name = ""
    /\ line = <<>>
    /\ pos = 1
    /\ response = NoResponse
    /\ content = <<>>
    /\ polls = 0
    /\ error = ""
    /\ http = <<>>
    /\ printed = <<>>

\* Whole runs, monitoring included, over plain input files and names.
Init == InitOver(PlainLines, PlainNames, MonitorIntervals)

\* Runs with monitoring disabled (the default), over all input files.
SubmitInit == InitOver(RawLines, FileNames, DisabledIntervals)

(* ------------------------------ actions ------------------------------- *)

\* The wall clock advances while the script runs.
Tick ==
    /\ pc \in {"login", "queue_all_files", "while_line", "flush", "final_flush"}
    /\ now < MaxClock
    /\ now' = now + 1
    /\ UNCHANGED << config, pc, session_id, main_download_ids, returned,
                    qafVars, monVars, error, http >>

\* login(): POST /topcat/user/session
Login ==
    /\ pc = "login"
    /\ \E r \in LoginResponses :
        /\ http' = Append(http, [kind |-> "login", status_code |-> r.status_code,
                                 text |-> r.text])
        /\ IF Failed(r)
           THEN /\ pc' = "error"
                /\ error' = r.text
                /\ UNCHANGED session_id
           ELSE /\ pc' = "queue_all_files"
                /\ session_id' = r.sessionId
                /\ UNCHANGED error
    /\ UNCHANGED << config, now, main_download_ids, returned, qafVars, monVars >>

\* queue_all_files, up to the first test of the while loop
QueueAllFilesStart ==
    /\ pc = "queue_all_files"
    /\ i' = 1
    /\ files' = <<>>
    /\ download_ids' = <<>>
    /\ base_file_name' = BaseFileName(file_name, now)
    /\ line' = ReadLine(1)
    /\ pos' = 2
    /\ pc' = "while_line"
    /\ UNCHANGED << config, now, session_id, main_download_ids, returned,
                    monVars, error, http >>

\* One iteration of `while line:` up to the call of queue_files
ReadOneLine ==
    /\ pc = "while_line"
    /\ line # <<>>
    /\ files' = Append(files, Strip(line))
    /\ line' = ReadLine(pos)
    /\ pos' = pos + 1
    /\ pc' = IF ShouldFlush(files') THEN "flush" ELSE "while_line"
    /\ UNCHANGED << config, now, session_id, main_download_ids, returned,
                    i, download_ids, base_file_name, monVars, error, http >>

\* queue_files(): POST /topcat/user/queue/files
QueueFiles(r) ==
    /\ http' = Append(http, [kind |-> "queue", status_code |-> r.status_code,
                             text |-> r.text, sessionId |-> session_id,
                             fileName |-> PartName(i), files |-> files,
                             downloadId |-> r.downloadId])
    /\ IF Failed(r)
       THEN /\ pc' = "error"
            /\ error' = r.text
            /\ UNCHANGED download_ids
       ELSE /\ download_ids' = AppendId(download_ids, r.downloadId)
            /\ UNCHANGED error

\* The flush inside the loop
FlushInLoop ==
    /\ pc = "flush"
    /\ \E r \in QueueResponses :
        /\ QueueFiles(r)
        /\ IF Failed(r)
           THEN UNCHANGED << i, files >>
           ELSE /\ i' = NextPart(i)
                /\ files' = FilesAfterFlush(files)
                /\ pc' = "while_line"
    /\ UNCHANGED << config, now, session_id, main_download_ids, returned,
                    base_file_name, line, pos, monVars >>

\* The loop ends at EOF; `if files:` decides on the final flush
EndOfFile ==
    /\ pc = "while_line"
    /\ line = <<>>
    /\ pc' = IF FinalFlushNeeded(files) THEN "final_flush" ELSE "return"
    /\ UNCHANGED << config, now, session_id, main_download_ids, returned,
                    qafVars, monVars, error, http >>

\* The final flush after the loop
FinalFlush ==
    /\ pc = "final_flush"
    /\ \E r \in QueueResponses :
        /\ QueueFiles(r)
        /\ IF Failed(r) THEN TRUE ELSE pc' = "return"
    /\ UNCHANGED << config, now, session_id, main_download_ids, returned,
                    i, files, base_file_name, line, pos, monVars >>

\* return download_ids; main then decides whether to monitor
Return ==
    /\ pc = "return"
    /\ main_download_ids' = download_ids
    /\ returned' = TRUE
    /\ pc' = IF MonitorEnabled(monitor_interval) THEN "monitor" ELSE "done"
    /\ UNCHANGED << config, now, session_id, qafVars, monVars, error, http >>

\* GET /topcat/user/downloads/status and the checks that follow it
StatusQuery(r) ==
    /\ http' = Append(http, [kind |-> "status", status_code |-> r.status_code,
                             text |-> r.text, sessionId |-> session_id,
                             downloadIds |-> main_download_ids])
    /\ response' = [status_code |-> r.status_code, text |-> r.text]
    /\ IF Failed(r)
       THEN /\ pc' = "error"
            /\ error' = r.text
            /\ UNCHANGED content
       ELSE /\ pc' = "while_active"
            /\ content' = r.content
            /\ UNCHANGED error

\* monitor, up to the first test of the while loop
MonitorStart ==
    /\ pc = "monitor"
    /\ \E r \in StatusResponses(main_download_ids) : StatusQuery(r)
    /\ UNCHANGED << config, now, session_id, main_download_ids, returned,
                    qafVars, polls, printed >>

\* The test of monitor's while loop, and the message after it
WhileActive ==
    /\ pc = "while_active"
    /\ IF AnyActive(content)
       THEN /\ polls < MaxPolls
            /\ pc' = "keep_alive"
            /\ UNCHANGED printed
       ELSE /\ printed' = Append(printed, "All downloads complete")
            /\ pc' = "done"
    /\ UNCHANGED << config, now, session_id, main_download_ids, returned,
                    qafVars, response, content, polls, error, http >>

\* PUT /datagateway-api/sessions and the status test after it
KeepAlive ==
    /\ pc = "keep_alive"
    /\ \E ka \in KeepAliveResponses :
        /\ http' = Append(http, [kind |-> "keepalive",
                                 status_code |-> ka.status_code,
                                 text |-> ka.text, sessionId |-> session_id])
        /\ LET checked == KeepAliveChecked(response, ka)
           IN  IF Failed(checked)
               THEN /\ pc' = "error"
                    /\ error' = checked.text
               ELSE /\ pc' = "sleep"
                    /\ UNCHANGED error
    /\ UNCHANGED << config, now, session_id, main_download_ids, returned,
                    qafVars, monVars >>

\* sleep(monitor_sleep), then the next status query
SleepAndQuery ==
    /\ pc = "sleep"
    /\ polls' = polls + 1
    /\ \E r \in StatusResponses(main_download_ids) : StatusQuery(r)
    /\ UNCHANGED << config, now, session_id, main_download_ids, returned,
                    qafVars, printed >>

Next ==
    \/ Tick
    \/ Login
    \/ QueueAllFilesStart
    \/ ReadOneLine
    \/ FlushInLoop
    \/ EndOfFile
    \/ FinalFlush
    \/ Return
    \/ MonitorStart
    \/ WhileActive
    \/ KeepAlive
    \/ SleepAndQuery

Spec == Init /\ [][Next]_vars

\* The steps of a run that does not monitor.
SubmitNext ==
    \/ Tick
    \/ Login
    \/ QueueAllFilesStart
    \/ ReadOneLine
    \/ FlushInLoop
    \/ EndOfFile
    \/ FinalFlush
    \/ Return

SubmitSpec == SubmitInit /\ [][SubmitNext]_vars

\* The script is sequential: once the test of monitor's while loop is
\* reached it is evaluated.
FairSpec == Init /\ [][Next]_vars /\ WF_vars(WhileActive)

(* ------------------------ operators of the claims ----------------------- *)

\* The submission requests issued so far, in the order they were issued.
QueueLog == SelectSeq(http, LAMBDA e : e.kind = "queue")

\* The number of requests of kind k issued so far.
Count(k) == Len(SelectSeq(http, LAMBDA e : e.kind = k))

RECURSIVE Concat(_)
Concat(ss) == IF ss = <<>> THEN <<>> ELSE Head(ss) \o Concat(Tail(ss))

IsPrefix(s, t) == Len(s) <= Len(t) /\ s = SubSeq(t, 1, Len(s))

CeilDiv(n, d) == (n + d - 1) \div d

\* The input list: the lines of the file, stripped.
InputPaths == [k \in 1..Len(lines) |-> Strip(lines[k])]

\* The chunks submitted so far and the identifiers the server gave them.
Chunks == [k \in 1..Len(QueueLog) |-> QueueLog[k].files]
ServerIds == [k \in 1..Len(QueueLog) |-> QueueLog[k].downloadId]

HasNonTerminal(c) ==
    \E k \in 1..Len(c) : c[k] \in {"QUEUED", "PAUSED", "PREPARING", "RESTORING"}

(* ------------------------------- claims -------------------------------- *)

\* C1: the chunks submitted so far, concatenated in submission order, are
\* always a prefix of the stripped input lines (nothing out of order, nothing
\* twice); when queue_all_files returns they are the whole input and their
\* number is ceil(L / ChunkSize).
C1_ChunksReconstructInput ==
    /\ IsPrefix(Concat(Chunks), InputPaths)
    /\ returned =>
        /\ Len(QueueLog) = CeilDiv(Len(lines), ChunkSize)
        /\ Concat(Chunks) = InputPaths

C1_Witness ==
    /\ returned
    /\ Len(QueueLog) >= 2
    /\ Len(lines) % ChunkSize # 0
    /\ \E j, k \in 1..Len(lines) : InputPaths[j] # InputPaths[k]

\* C2: every submitted chunk but the last holds exactly ChunkSize paths, and
\* the last holds between 1 and ChunkSize.
C2_ChunkSizes ==
    \A k \in 1..Len(QueueLog) :
        /\ Len(QueueLog[k].files) >= 1
        /\ Len(QueueLog[k].files) <= ChunkSize
        /\ k < Len(QueueLog) => Len(QueueLog[k].files) = ChunkSize

C2_Witness ==
    /\ returned
    /\ Len(lines) = MaxLines - (MaxLines % ChunkSize)
    /\ Len(QueueLog) >= 1
    /\ Len(QueueLog[Len(QueueLog)].files) = ChunkSize

\* C3: the k-th submission is named <base>_part_<k>, with one base for all
\* parts: the supplied name, or one timestamp when no name was supplied.
C3_PartNames ==
    \E b \in (IF file_name \notin {None, ""}
              THEN {file_name}
              ELSE {IsoFormat19(t) : t \in 0..MaxClock}) :
        \A k \in 1..Len(QueueLog) :
            QueueLog[k].fileName = b \o "_part_" \o ToString(k)

C3_Witness ==
    /\ returned
    /\ file_name = None
    /\ Len(QueueLog) >= 2
    /\ now > 0
    /\ QueueLog[2].fileName = IsoFormat19(0) \o "_part_2"

\* C4: a login, submission or status request answered with a status other
\* than 200 is the last request of the run, and the run has ended with an
\* error that carries that response's body.
C4_FailureHalts ==
    \A k \in 1..Len(http) :
        (http[k].kind \in {"login", "queue", "status"} /\ http[k].status_code # 200)
            => /\ k = Len(http)
               /\ pc = "error"
               /\ error = http[k].text

C4_Witness ==
    /\ pc = "error"
    /\ Count("keepalive") >= 1
    /\ http[Len(http)].kind = "status"
    /\ http[Len(http)].status_code = 500
    /\ error = "server error"

\* C5: completion is reported only when the latest status response has no
\* non-terminal status; a further status query is issued only when it has
\* one; when it has none the next step of monitor reports completion and
\* ends the run, and that step is eventually taken.
C5_ReportedOnlyWhenTerminal ==
    /\ printed # <<>> =>
        /\ printed = <<"All downloads complete">>
        /\ ~HasNonTerminal(content)
        /\ pc = "done"
    /\ (pc = "done" /\ Count("status") > 0) => printed # <<>>

C5_PollsOnlyWhileNonTerminal ==
    /\ (Count("status")' > Count("status") /\ Count("status") > 0)
        => HasNonTerminal(content)
    /\ (pc = "while_active" /\ pc' # pc /\ ~HasNonTerminal(content))
        => (pc' = "done" /\ printed' = <<"All downloads complete">>)
    /\ (pc = "while_active" /\ pc' # pc /\ HasNonTerminal(content))
        => (pc' = "keep_alive" /\ printed' = <<>>)

C5_TerminatesOnceTerminal ==
    (pc = "while_active" /\ ~HasNonTerminal(content))
        ~> (pc = "done" /\ printed = <<"All downloads complete">>)

C5_MonitorStopsExactlyWhenTerminal ==
    /\ []C5_ReportedOnlyWhenTerminal
    /\ [][C5_PollsOnlyWhileNonTerminal]_vars
    /\ C5_TerminatesOnceTerminal

C5_Witness ==
    /\ printed = <<"All downloads complete">>
    /\ Count("status") >= 2
    /\ Len(content) >= 2

\* C6: the list queue_all_files returns holds, in submission order, the
\* downloadId the server returned for each submitted chunk.
C6_ReturnedIds ==
    returned =>
        /\ main_download_ids = ServerIds
        /\ \A k \in 1..Len(QueueLog) : QueueLog[k].status_code = 200

C6_Witness ==
    /\ returned
    /\ Len(main_download_ids) >= 2
    /\ main_download_ids[1] # main_download_ids[2]

\* C7: for an empty input file no submission is ever issued, and when
\* queue_all_files returns the only request made is the login and the
\* returned list is empty.
C7_EmptyInput ==
    lines = <<>> =>
        /\ QueueLog = <<>>
        /\ returned =>
            /\ Len(http) >= 1
            /\ http[1].kind = "login"
            /\ http[1].status_code = 200
            /\ main_download_ids = <<>>

C7_Witness ==
    /\ lines = <<>>
    /\ returned
    /\ pc = "done"
    /\ Count("login") = 1

\* C8: the first request is the login and no other is; no submission
\* follows a status or keep-alive request; with a monitor interval of zero
\* or less no status or keep-alive request is issued; a status query is
\* issued only after all chunks were submitted successfully and queries
\* the identifiers queue_all_files returned.
C8_ControlFlow ==
    /\ \A k \in 1..Len(http) : (http[k].kind = "login") <=> (k = 1)
    /\ \A j, k \in 1..Len(http) :
        (j < k /\ http[j].kind \in {"status", "keepalive"})
            => http[k].kind \in {"status", "keepalive"}
    /\ monitor_interval <= 0 => (Count("status") = 0 /\ Count("keepalive") = 0)
    /\ \A k \in 1..Len(http) :
        http[k].kind = "status" =>
            /\ returned
            /\ Len(QueueLog) = CeilDiv(Len(lines), ChunkSize)
            /\ \A q \in 1..Len(QueueLog) : QueueLog[q].status_code = 200
            /\ http[k].downloadIds = ServerIds
            /\ http[k].downloadIds = main_download_ids

C8_Witness ==
    /\ monitor_interval > 0
    /\ Count("status") >= 2
    /\ Len(QueueLog) >= 2

C10_FailedSubmissionAborts ==
    \A k \in 1..Len(QueueLog) :
        QueueLog[k].status_code # 200 =>
            /\ k = Len(QueueLog)
            /\ http[Len(http)] = QueueLog[k]
            /\ pc = "error"
            /\ ~returned
            /\ main_download_ids = <<>>
            /\ \A j \in 1..(k - 1) : QueueLog[j].status_code = 200

C10_Witness ==
    /\ pc = "error"
    /\ Len(QueueLog) >= 2
    /\ QueueLog[Len(QueueLog)].status_code # 200
    /\ line # <<>>

====
